---- MODULE Spec2Model ----
(***************************************************************************)
(* Campaign ledger of the AdCarbon front end (frontend/web/src/App.tsx)    *)
(* and the AdCarbonFHE contract.                                           *)
(*                                                                         *)
(* Several browser sessions share one on-chain key/value store (getData /  *)
(* setData / isAvailable).  Every session runs the React component App:    *)
(* it keeps an in-memory list of campaigns, and its handlers loadCampaigns,*)
(* submitCampaign, calculateCarbon and checkAvailability are asynchronous: *)
(* every await is a return to the event loop, where the handlers of any    *)
(* session, this one included, interleave.  A handler in flight is a task; *)
(* a session holds up to MaxInFlight of them, and up to MaxTimers pending  *)
(* setTimeout callbacks.  The buttons (Refresh, Create Campaign, Calculate,*)
(* Check FHE Status, the page buttons) are pressed and the search box is   *)
(* typed into up to MaxPresses times in a run.                             *)
(*                                                                         *)
(* The wallet handlers (onWalletSelect, accountsChanged, onDisconnect) can *)
(* set a session's account and provider to any value at any moment, and    *)
(* ModalCreate.handleChange can set the form to any value, independently   *)
(* of the rest of the state.  So the account, the provider and the form a  *)
(* handler finds when it is invoked are inputs of its first step.          *)
(* Campaign ids (`${Date.now()}-${random}`) are taken to be unique, as the *)
(* design accepts.                                                         *)
(*                                                                         *)
(* A call of the contract (getContractReadOnly, getContractWithSigner,     *)
(* isAvailable, getData, setData) takes effect and answers in one step,    *)
(* the step in which its await resumes; it may throw (transport), with an  *)
(* Error, with a value that has no message, or with undefined or null.     *)
(*                                                                         *)
(* Spec is the program over an empty store, or over a ledger long enough   *)
(* to fill two pages.  SpecLoad is loadCampaigns alone over a store with   *)
(* any contents, SpecStale the same for sessions that already show a list, *)
(* SpecView one session over the ledger, SpecContract the contract on its  *)
(* own.                                                                    *)
(***************************************************************************)
EXTENDS Integers, Sequences, FiniteSets, TLC

\* ---------------------------------------------------------------- bounds
NumClients   == 2    \* browser sessions sharing the store
MaxCampaigns == 2    \* campaign ids the sessions generate
MaxTicks     == 1    \* times Date.now() is seen to have advanced
MaxLoadIds   == 3    \* ids of a store drawn for loadCampaigns alone
MaxChainCampaigns == 2   \* campaigns submitted to the contract
MaxRequests == 3         \* decryption requests the contract sends
MaxViewItems == 7        \* records of the ledger the sessions may find stored
MaxInFlight == 2         \* handlers a session has in flight at once
MaxTimers == 1           \* setTimeout callbacks a session has pending at once
MaxPresses == 3          \* buttons pressed and searches typed in a run, in all sessions

Clients == 1..NumClients
Ids     == 1..MaxCampaigns
StoredIds == 1 .. MaxCampaigns + MaxViewItems
LoadIds == 1..MaxLoadIds
Slots   == 1..MaxInFlight

\* ------------------------------------------------------- program constants
ServersFactor     == 500   \* 0.5   per server,       in thousandths
BandwidthFactor   == 20    \* 0.02  per GB,           in thousandths
ImpressionsFactor == 1     \* 0.001 per impression,   in thousandths
DurationFactor    == 100   \* 0.1   per day,          in thousandths
Milli             == 1000  \* the factors above are thousandths
MsPerSecond       == 1000  \* Date.now() / 1000
TickMs            == 500   \* the clock is seen to advance by half a second
StartMs           == 10000 \* the clock at the start

\* ------------------------------------------------------------------ strings
\* An account is a string; it is modelled as the sequence of its characters
\* so that toLowerCase is computed character by character.
LowerChar(ch) ==
  CASE ch = "A" -> "a" [] ch = "B" -> "b" [] ch = "C" -> "c" [] ch = "D" -> "d"
    [] ch = "E" -> "e" [] ch = "F" -> "f" [] ch = "G" -> "g" [] ch = "H" -> "h"
    [] ch = "I" -> "i" [] ch = "J" -> "j" [] ch = "K" -> "k" [] ch = "L" -> "l"
    [] ch = "M" -> "m" [] ch = "N" -> "n" [] ch = "O" -> "o" [] ch = "P" -> "p"
    [] ch = "Q" -> "q" [] ch = "R" -> "r" [] ch = "S" -> "s" [] ch = "T" -> "t"
    [] ch = "U" -> "u" [] ch = "V" -> "v" [] ch = "W" -> "w" [] ch = "X" -> "x"
    [] ch = "Y" -> "y" [] ch = "Z" -> "z"
    [] OTHER    -> ch

toLowerCase(s) == [i \in DOMAIN s |-> LowerChar(s[i])]

NoAccount == <<>>                      \* the empty string ""
\* the accounts a session is connected as when it presses a button
Accounts  == { <<"0", "x", "A">>, <<"0", "x", "a">>, <<"0", "x", "B">> }
\* the accounts campaigns are submitted from
Submitters == { <<"0", "x", "A">> }

\* isOwner of a session whose account is acc
isOwner(acc, address) == toLowerCase(acc) = toLowerCase(address)

\* --------------------------------------------------------------- encodings
\* Bytes are a sequence; a text is encoded as one element, so the bytes of a
\* text are never empty.  parses(b) is "JSON.parse(toUtf8String(b)) returns".
EmptyBytes   == <<>>
GarbageBytes == << [junk |-> TRUE] >>
toUtf8Bytes(text)    == << text >>
toUtf8String(bytes)  == bytes[1]
JSON_stringify(v)    == [json |-> v]
parses(bytes)        == Len(bytes) > 0 /\ "json" \in DOMAIN toUtf8String(bytes)
JSON_parse(text)     == text.json
btoa(text)           == [b64 |-> text]

\* the bytes a handler stores for the object cd
recordBytesMut(cd) == toUtf8Bytes(cd)
recordBytes(cd) == toUtf8Bytes(JSON_stringify(cd))

\* ------------------------------------------------------------------- forms
\* A name is a string, kept as the sequence of its characters, as an account
\* is.  newCampaignData as the user left it in ModalCreate before pressing
\* "Create Campaign" (handleChange stores whatever was typed; the numeric
\* fields are coerced to numbers where the code multiplies them).  The
\* metrics are whole numbers.  In real numbers the sums of the formula are
\* 1.5 and -0.5; in the doubles of the code the first is 1.4999999999999998.
Form(n, s, b, i, d) ==
  [name |-> n, servers |-> s, bandwidth |-> b, impressions |-> i, duration |-> d]

Forms ==
  { Form(<< "C", "1" >>, 1, 10, 600, 2),      \* 1.4999999999999998 -> 1
    Form(<< "C", "2" >>, 1, -50, 0, 0),       \* -0.5 -> 0
    Form(<< >>, 1, 0, 0, 0),                  \* refused: no name
    Form(<< "C", "3" >>, 0, 0, 0, 0) }        \* refused: servers <= 0

NoForm == Form(<< >>, 0, 0, 0, 0)

\* ModalCreate.handleSubmit lets the form through
handleSubmitOk(form) == ~(form.name = << >> \/ form.servers <= 0)

\* the object submitCampaign stores
campaignDataMut(form, acc, nowMs) ==
  [ name            |-> form.name,
    data            |-> << "FHE-", btoa(JSON_stringify(form)) >>,
    timestamp       |-> nowMs \div MsPerSecond,
    owner           |-> toLowerCase(acc),
    carbonFootprint |-> 0,
    status          |-> "processing",
    details         |-> [ servers     |-> form.servers,
                          bandwidth   |-> form.bandwidth,
                          impressions |-> form.impressions,
                          duration    |-> form.duration ] ]
campaignData(form, acc, nowMs) ==
  [ name            |-> form.name,
    data            |-> << "FHE-", btoa(JSON_stringify(form)) >>,
    timestamp       |-> nowMs \div MsPerSecond,
    owner           |-> acc,
    carbonFootprint |-> 0,
    status          |-> "processing",
    details         |-> [ servers     |-> form.servers,
                          bandwidth   |-> form.bandwidth,
                          impressions |-> form.impressions,
                          duration    |-> form.duration ] ]

NoCampaign == campaignData(NoForm, NoAccount, 0)

\* ------------------------------------------------------------------ numbers
\* A JavaScript number is an IEEE 754 double.  The doubles the formula meets
\* are whole multiples of 2^-FracBits, so a number is kept as a sign and a
\* magnitude counted in that unit.  A magnitude does not fit the integers of
\* the checker: it is a numeral in base 2^LimbBits, least significant limb
\* first and without leading zeros.
LimbBits == 15
FracBits == 75
SignificandBits == 53
Base == 2 ^ LimbBits

RECURSIVE limbsOf(_)
limbsOf(n) == IF n = 0 THEN << >> ELSE << n % Base >> \o limbsOf(n \div Base)

RECURSIVE valueOf(_)
valueOf(a) == IF a = << >> THEN 0 ELSE a[1] + Base * valueOf(Tail(a))

RECURSIVE trim(_)
trim(a) ==
  IF a = << >> \/ a[Len(a)] # 0 THEN a ELSE trim(SubSeq(a, 1, Len(a) - 1))

limbAt(a, i) == IF i \in DOMAIN a THEN a[i] ELSE 0

\* the number of bits of a magnitude
bitLength(a) ==
  IF a = << >> THEN 0
  ELSE LimbBits * (Len(a) - 1)
         + (CHOOSE k \in 1 .. LimbBits : 2 ^ (k - 1) <= a[Len(a)] /\ a[Len(a)] < 2 ^ k)

\* bit j of a magnitude, the lowest being bit 1
bitAt(a, j) ==
  (limbAt(a, (j - 1) \div LimbBits + 1) \div 2 ^ ((j - 1) % LimbBits)) % 2

\* a + b + carry, from limb i on
RECURSIVE addFrom(_, _, _, _)
addFrom(a, b, i, carry) ==
  IF i > Len(a) /\ i > Len(b)
  THEN IF carry = 0 THEN << >> ELSE << carry >>
  ELSE LET s == limbAt(a, i) + limbAt(b, i) + carry
       IN  << s % Base >> \o addFrom(a, b, i + 1, s \div Base)

addLimbs(a, b) == addFrom(a, b, 1, 0)

\* a - b - borrow, from limb i on, for a >= b
RECURSIVE subFrom(_, _, _, _)
subFrom(a, b, i, borrow) ==
  IF i > Len(a) THEN << >>
  ELSE LET s == limbAt(a, i) - limbAt(b, i) - borrow
       IN  << s % Base >> \o subFrom(a, b, i + 1, IF s < 0 THEN 1 ELSE 0)

subLimbs(a, b) == trim(subFrom(a, b, 1, 0))

\* a < b
lessLimbs(a, b) ==
  \/ Len(a) < Len(b)
  \/ /\ Len(a) = Len(b)
     /\ \E i \in DOMAIN a :
          /\ a[i] < b[i]
          /\ \A j \in DOMAIN a : j > i => a[j] = b[j]

\* a * n + carry for a natural number n < Base, from limb i on
RECURSIVE mulFrom(_, _, _, _)
mulFrom(a, n, i, carry) ==
  IF i > Len(a) THEN (IF carry = 0 THEN << >> ELSE << carry >>)
  ELSE LET p == a[i] * n + carry
       IN  << p % Base >> \o mulFrom(a, n, i + 1, p \div Base)

\* a * n for a natural number n
RECURSIVE mulLimbs(_, _)
mulLimbs(a, n) ==
  IF n = 0 \/ a = << >> THEN << >>
  ELSE addLimbs(mulFrom(a, n % Base, 1, 0),
                << 0 >> \o mulLimbs(a, n \div Base))

\* a * 2^k and a divided by 2^k
shiftLeft(a, k) ==
  IF a = << >> THEN a
  ELSE [i \in 1 .. k \div LimbBits |-> 0] \o mulFrom(a, 2 ^ (k % LimbBits), 1, 0)

shiftRight(a, k) ==
  LET b == SubSeq(a, k \div LimbBits + 1, Len(a))
      r == k % LimbBits
  IN  trim([i \in DOMAIN b |->
              b[i] \div 2 ^ r + (limbAt(b, i + 1) % 2 ^ r) * 2 ^ (LimbBits - r)])

\* a divided by a natural number d, 0 < d < Base, from limb i down:
\* quotient and remainder
RECURSIVE divFrom(_, _, _, _)
divFrom(a, d, i, rem) ==
  IF i = 0 THEN [q |-> << >>, r |-> rem]
  ELSE LET cur == rem * Base + a[i]
       IN  [q |-> Append(divFrom(a, d, i - 1, cur % d).q, cur \div d),
            r |-> divFrom(a, d, i - 1, cur % d).r]

\* the double nearest to a magnitude, ties to the even significand; inexact:
\* the magnitude was cut from a value that had more below the unit
roundLimbs(a, inexact) ==
  IF bitLength(a) <= SignificandBits THEN a
  ELSE LET drop   == bitLength(a) - SignificandBits
           kept   == shiftRight(a, drop)
           half   == bitAt(a, drop) = 1
           sticky == inexact \/ \E j \in 1 .. drop - 1 : bitAt(a, j) = 1
           up     == half /\ (sticky \/ bitAt(kept, 1) = 1)
       IN  shiftLeft(IF up THEN addLimbs(kept, << 1 >>) ELSE kept, drop)

Number(neg, mag) == [neg |-> neg /\ mag # << >>, mag |-> mag]

\* the double a decimal literal denotes, given as num / den (0.02 is 2 / 100)
literal(num, den) ==
  LET scaled == shiftLeft(limbsOf(num), FracBits)
      d == divFrom(scaled, den, Len(scaled), 0)
  IN  Number(FALSE, roundLimbs(trim(d.q), d.r # 0))

\* x + y before it is rounded
sum(x, y) ==
  IF x.neg = y.neg THEN Number(x.neg, addLimbs(x.mag, y.mag))
  ELSE IF lessLimbs(x.mag, y.mag) THEN Number(y.neg, subLimbs(y.mag, x.mag))
  ELSE Number(x.neg, subLimbs(x.mag, y.mag))

\* x + y of two doubles
plus(x, y) == LET s == sum(x, y) IN Number(s.neg, roundLimbs(s.mag, FALSE))

\* n * x of a whole number n and a double x
times(n, x) ==
  Number((n < 0) # x.neg,
         roundLimbs(mulLimbs(x.mag, IF n < 0 THEN -n ELSE n), FALSE))

\* ----------------------------------------------------------------- formula
\* the doubles the literals 0.5, 0.02, 0.001 and 0.1 denote
ServersRate     == literal(ServersFactor, Milli)
BandwidthRate   == literal(BandwidthFactor, Milli)
ImpressionsRate == literal(ImpressionsFactor, Milli)
DurationRate    == literal(DurationFactor, Milli)
Half            == literal(Milli \div 2, Milli)

\* Math.round: floor(x + 0.5), the sum taken exactly.  (Math.round(-0.5) is
\* -0, which JSON.stringify writes as 0.)
Math_round(x) ==
  LET t == sum(x, Half)
      whole == shiftRight(t.mag, FracBits)
      fraction == shiftLeft(whole, FracBits) # t.mag
  IN  IF ~t.neg THEN valueOf(whole)
      ELSE IF fraction THEN -(valueOf(whole) + 1) ELSE -valueOf(whole)

\* the sum calculateCarbon rounds: details.servers * 0.5 + details.bandwidth
\* * 0.02 + details.impressions * 0.001 + details.duration * 0.1, added from
\* the left, every product and every sum rounded to a double
carbonSum(details) ==
  plus(plus(plus(times(details.servers, ServersRate),
                 times(details.bandwidth, BandwidthRate)),
            times(details.impressions, ImpressionsRate)),
       times(details.duration, DurationRate))

carbonFootprint(details) == Math_round(carbonSum(details))

\* carbonFootprint of the metrics the forms of this model hold, computed once
Metrics(s, b, i, d) ==
  [servers |-> s, bandwidth |-> b, impressions |-> i, duration |-> d]
FormMetrics ==
  { Metrics(f.servers, f.bandwidth, f.impressions, f.duration) : f \in Forms }
    \cup { Metrics(2, 10, 1000, 5), Metrics(4, 20, 2000, 10) }
Footprints == [details \in FormMetrics |-> carbonFootprint(details)]

carbonOf(cd) ==
  IF cd.details \in FormMetrics THEN Footprints[cd.details]
  ELSE carbonFootprint(cd.details)

\* the object calculateCarbon writes back: { ...campaignData, carbonFootprint,
\* status: "completed" }
updatedCampaignMutStatus(cd, carbon) ==
  [cd EXCEPT !.carbonFootprint = carbon,
             !.status = IF cd.status = "processing" THEN "completed" ELSE "error"]
updatedCampaignMutSum(cd, carbon) ==
  [cd EXCEPT !.carbonFootprint = cd.carbonFootprint + carbon, !.status = "completed"]
updatedCampaignMutFrame(cd, carbon) ==
  [cd EXCEPT !.carbonFootprint = carbon, !.status = "completed", !.timestamp = 0]
updatedCampaign(cd, carbon) ==
  [cd EXCEPT !.carbonFootprint = carbon, !.status = "completed"]


\* the object loadCampaigns pushes for key when its record parsed to cd
listEntry(key, cd) ==
  [ id              |-> key,
    name            |-> cd.name,
    encryptedData   |-> cd.data,
    timestamp       |-> cd.timestamp,
    owner           |-> cd.owner,
    carbonFootprint |-> IF cd.carbonFootprint = 0 THEN 0 ELSE cd.carbonFootprint,
    status          |-> IF cd.status = "" THEN "processing" ELSE cd.status,
    details         |-> cd.details ]

\* list.sort((a, b) => b.timestamp - a.timestamp): stable, newest first
RECURSIVE insertByTimestampMut(_, _)
insertByTimestampMut(sorted, e) ==
  IF sorted = <<>> THEN << e >>
  ELSE IF Head(sorted).timestamp > e.timestamp
       THEN << Head(sorted) >> \o insertByTimestampMut(Tail(sorted), e)
       ELSE << e >> \o sorted

RECURSIVE insertByTimestamp(_, _)
insertByTimestamp(sorted, e) ==
  IF sorted = <<>> THEN << e >>
  ELSE IF Head(sorted).timestamp >= e.timestamp
       THEN << Head(sorted) >> \o insertByTimestamp(Tail(sorted), e)
       ELSE << e >> \o sorted

RECURSIVE sortByTimestampDesc(_)
sortByTimestampDesc(list) ==
  IF list = <<>> THEN <<>>
  ELSE insertByTimestamp(sortByTimestampDesc(SubSeq(list, 1, Len(list) - 1)),
                         list[Len(list)])

\* ------------------------------------------------------------- statistics
\* campaigns.reduce((sum, c) => sum + (c.carbonFootprint || 0), 0)
RECURSIVE totalCarbon(_)
totalCarbon(list) ==
  IF list = << >> THEN 0
  ELSE LET c == list[Len(list)] IN
         totalCarbon(SubSeq(list, 1, Len(list) - 1))
           + (IF c.carbonFootprint = 0 THEN 0 ELSE c.carbonFootprint)

\* campaigns.length > 0 ? totalCarbon / campaigns.length : 0.  The quotient
\* is kept as the fraction num / den that the division is given.
avgCarbonMut(list) ==
  [num |-> totalCarbon(list), den |-> Len(list)]

avgCarbon(list) ==
  IF Len(list) > 0 THEN [num |-> totalCarbon(list), den |-> Len(list)]
  ELSE [num |-> 0, den |-> 1]

\* ------------------------------------------------- the list and the chart
\* What App renders from campaigns, searchTerm and currentPage.
itemsPerPage == 5
ChartBars == 5

\* String.prototype.includes on strings given as character sequences
includes(s, t) ==
  \E i \in 0 .. Len(s) - Len(t) : SubSeq(s, i + 1, i + Len(t)) = t

\* Array.prototype.slice(from, to) with 0 <= from <= to
slice(list, from, to) ==
  SubSeq(list, from + 1, IF to < Len(list) THEN to ELSE Len(list))

filteredCampaigns(list, term) ==
  LET matches(campaign) ==
        \/ includes(toLowerCase(campaign.name), toLowerCase(term))
        \/ includes(toLowerCase(campaign.owner), toLowerCase(term))
  IN  SelectSeq(list, matches)

currentItems(list, term, page) ==
  LET indexOfLastItem == page * itemsPerPage
      indexOfFirstItem == indexOfLastItem - itemsPerPage
  IN  slice(filteredCampaigns(list, term), indexOfFirstItem, indexOfLastItem)

\* Math.ceil(filteredCampaigns.length / itemsPerPage)
totalPages(list, term) ==
  (Len(filteredCampaigns(list, term)) + itemsPerPage - 1) \div itemsPerPage

\* Math.max(...xs) of a sequence that is not empty
Math_max(xs) ==
  CHOOSE m \in { xs[i] : i \in DOMAIN xs } : \A i \in DOMAIN xs : xs[i] <= m

\* renderCarbonChart: the empty states, or the bars; the width of a bar is
\* kept as the fraction carbonFootprint / maxCarbon the code multiplies by 100
renderCarbonChart(list) ==
  LET isCompleted(c) == c.status = "completed"
      completedCampaigns == SelectSeq(list, isCompleted)
  IN  IF Len(list) = 0
      THEN [kind |-> "no-data", maxCarbon |-> 0, bars |-> << >>]
      ELSE IF Len(completedCampaigns) = 0
      THEN [kind |-> "no-completed", maxCarbon |-> 0, bars |-> << >>]
      ELSE LET maxCarbon ==
                 Math_max([i \in DOMAIN completedCampaigns |->
                             completedCampaigns[i].carbonFootprint])
               shown == slice(completedCampaigns, 0, ChartBars)
           IN  [kind |-> "chart", maxCarbon |-> maxCarbon,
                bars |-> [i \in DOMAIN shown |->
                            [campaign |-> shown[i],
                             num |-> shown[i].carbonFootprint,
                             den |-> maxCarbon]]]

\* -------------------------------------------------------------------- keys
KeysKey         == << "campaign_keys" >>
campaignKey(id) == << "campaign_", id >>
Keys            == { KeysKey } \cup { campaignKey(id) : id \in StoredIds }

\* the keys array a handler holds after reading the index bytes
parseKeys(bytes) ==
  IF Len(bytes) > 0 /\ parses(bytes) THEN JSON_parse(toUtf8String(bytes)) ELSE <<>>

\* ------------------------------------------------------------------- state
VARIABLES
  store,              \* the contract's key/value storage: key -> bytes
  transport,          \* which calls of the contract fail
  now,                \* the last value Date.now() returned, in milliseconds
  presses,            \* the buttons pressed so far
  loading,            \* per session: the loading screen is shown
  campaigns,          \* per session: the in-memory list
  creating,           \* per session: submitCampaign in progress
  isRefreshing,       \* per session: loadCampaigns in progress
  transactionStatus,  \* per session: what the status modal shows
  timers,             \* per session: setTimeout callbacks yet to run
  task,               \* per session: the handlers in flight
  searchTerm,         \* per session: the text in the search box
  currentPage,        \* per session: the page of the list selected
  campaignCount,         \* AdCarbonFHE: uint256 public campaignCount
  encryptedCampaigns,    \* AdCarbonFHE: mapping id -> EncryptedAdCampaign
  carbonFootprints,      \* AdCarbonFHE: mapping id -> CarbonFootprint
  requestToCampaignId,   \* AdCarbonFHE: mapping request id -> campaign id
  decryptionRequests,    \* the decryption oracle: the requests it was sent
  footprintRevealed,     \* the FootprintRevealed events emitted, in order
  receipt                \* the last transaction sent to AdCarbonFHE

viewVars == << loading, campaigns, creating, isRefreshing >>
statusVars == << transactionStatus, timers >>
envVars == << transport, presses >>
appVars == << store, envVars, now, viewVars, statusVars, task >>
chainVars == << campaignCount, encryptedCampaigns, carbonFootprints,
               requestToCampaignId, decryptionRequests, footprintRevealed, receipt >>
pageVars == << searchTerm, currentPage >>
vars == << appVars, pageVars, chainVars >>

\* no handler in flight
Idle ==
  [ pc |-> "idle", op |-> "none", account |-> NoAccount,
    form |-> NoForm, id |-> 0, keys |-> <<>>, i |-> 0, list |-> <<>>,
    campaignData |-> NoCampaign, updated |-> NoCampaign ]

\* outcomes of getContractReadOnly() and of getContractWithSigner()
ContractOutcomes == { "ok", "null", "throw" }
SignerOutcomes == { "ok", "null", "throw" }

\* outcomes of contract.isAvailable()
AvailableOutcomes == { "true", "false", "throw" }

\* The outcomes of getContractReadOnly() and isAvailable() in this run: any
\* of them, or always as transport.contract says ("null" and "throw": what
\* getContractReadOnly() does; "unavailable": isAvailable() answers false).
ContractResults ==
  IF transport.contract = "any" THEN ContractOutcomes
  ELSE IF transport.contract \in { "null", "throw" } THEN { transport.contract }
  ELSE { "ok" }

AvailableResults ==
  IF transport.contract = "any" THEN AvailableOutcomes
  ELSE IF transport.contract = "unavailable" THEN { "false" }
  ELSE { "true" }

\* A getData or setData call on key either returns or throws.  The calls on
\* the keys in transport.down throw; when the transport is flaky any other
\* call may throw as well, and otherwise it returns.
Outcomes(key) ==
  IF key \in transport.down THEN { FALSE }
  ELSE IF transport.flaky THEN BOOLEAN ELSE { TRUE }

\* what a call throws: an Error (it has a message), a value without message
\* (a string, an object), or undefined or null (reading e.message throws)
Thrown == { "Error", "no message", "undefined" }

\* ------------------------------------------------- AdCarbonFHE (contract)
\* The contract of src/unnamed/part_000.  The page never calls it: its state
\* is the contract's storage, the requests the decryption oracle was sent,
\* the FootprintRevealed events, and the last transaction with its outcome
\* (a reverted transaction changes nothing but that).
ZeroAddress == "0x0"
Senders == { "alice", "bob" }
Relayer == "relayer"
ChainIds == 0 .. MaxChainCampaigns
RequestIds == 1 .. MaxRequests

\* An encrypted value is a handle: the zero handle is what storage holds
\* before anything is written; FHE.asEuint32/64 and the FHE operators return
\* a handle of their own, and FHE.isInitialized tells the zero handle apart.
NoHandle == [op |-> "none", val |-> 0]
FHE_input(v) == [op |-> "input", val |-> v]
FHE_asEuint(v) == [op |-> "trivial", val |-> v]
FHE_mul(a, b) == [op |-> "mul", val |-> a.val * b.val]
FHE_add(a, b) == [op |-> "add", val |-> a.val + b.val]
FHE_isInitialized(h) == h.op # "none"
FHE_decrypt(h) == h.val

\* the metrics a submitter encrypts: impressions, clicks, MB, kWh
ChainMetrics == { << 1000, 10, 1, 1 >>, << 0, 0, 0, 0 >> }
BlockTimestamp == 1

NoEncryptedCampaign ==
  [id |-> 0, encryptedImpressions |-> NoHandle, encryptedClicks |-> NoHandle,
   encryptedDataTransfer |-> NoHandle, encryptedServerEnergy |-> NoHandle,
   timestamp |-> 0, advertiser |-> ZeroAddress]
NoFootprint == [encryptedCO2 |-> NoHandle, isRevealed |-> FALSE, timestamp |-> 0]

ChainInit ==
  /\ campaignCount = 0
  /\ encryptedCampaigns = [i \in ChainIds |-> NoEncryptedCampaign]
  /\ carbonFootprints = [i \in ChainIds |-> NoFootprint]
  /\ requestToCampaignId = [r \in RequestIds |-> 0]
  /\ decryptionRequests = << >>
  /\ footprintRevealed = << >>
  /\ receipt = [fn |-> "constructor", sender |-> ZeroAddress, arg |-> 0, status |-> "ok"]

storageVars == << campaignCount, encryptedCampaigns, carbonFootprints,
                 requestToCampaignId, decryptionRequests, footprintRevealed >>

\* The ledger sessions may find stored: MaxViewItems records
\* submitted one second apart before the clock's start, record k under id
\* MaxCampaigns + k, listed in the index in the order of submission.  The
\* second oldest is still processing, the others are completed; the oldest
\* has the largest footprint; the names of the newest three and of the
\* oldest hold an "A", the owner's address does not.
ViewRecord(k) ==
  LET form == IF k = 1 THEN Form(<< "A", "1" >>, 4, 20, 2000, 10)
              ELSE IF k >= MaxViewItems - 2 THEN Form(<< "A", "2" >>, 2, 10, 1000, 5)
              ELSE Form(<< "B", "3" >>, 2, 10, 1000, 5)
      cd == campaignData(form, << "0", "x", "B" >>,
                         StartMs - (MaxViewItems + 1 - k) * MsPerSecond)
  IN  IF k = 2 THEN cd ELSE updatedCampaign(cd, carbonOf(cd))

EmptyStore == [key \in Keys |-> EmptyBytes]
LedgerStore ==
  [key \in Keys |->
     IF key = KeysKey
     THEN toUtf8Bytes(JSON_stringify([k \in 1 .. MaxViewItems |-> MaxCampaigns + k]))
     ELSE IF key[2] > MaxCampaigns THEN recordBytes(ViewRecord(key[2] - MaxCampaigns))
     ELSE EmptyBytes]

\* the list loadCampaigns sets when it has read the ledger
LedgerList ==
  [i \in 1 .. MaxViewItems |->
     listEntry(MaxCampaigns + MaxViewItems + 1 - i, ViewRecord(MaxViewItems + 1 - i))]

\* App over the store st and the transport tr: as constructed (first), or
\* when its first loadCampaigns has ended and has set list
InitOver(st, tr, first, list) ==
  /\ store = st
  /\ transport = tr
  /\ now = StartMs
  /\ presses = 0
  /\ loading = [c \in Clients |-> first]
  /\ campaigns = [c \in Clients |-> list]
  /\ creating = [c \in Clients |-> FALSE]
  /\ isRefreshing = [c \in Clients |-> FALSE]
  /\ transactionStatus = [c \in Clients |-> "hidden"]
  /\ timers = [c \in Clients |-> 0]
  /\ task = [c \in Clients |-> [h \in Slots |-> Idle]]
  /\ ChainInit
  /\ searchTerm = [c \in Clients |-> << >>]
  /\ currentPage = [c \in Clients |-> 1]

\* App as constructed over an empty store, where any call may fail; or
\* showing the ledger it has loaded, with the contract since out of reach:
\* getContractReadOnly() gives null, every getData and setData throws
Init ==
  \/ InitOver(EmptyStore, [flaky |-> TRUE, down |-> {}, contract |-> "any"], TRUE, << >>)
  \/ InitOver(LedgerStore, [flaky |-> FALSE, down |-> Keys, contract |-> "null"],
              FALSE, LedgerList)

\* ------------------------------------------------------------ environment
\* the values Date.now() can return next: the clock never goes back
DateNow == { ms \in { now, now + TickMs } : ms <= StartMs + MaxTicks * TickMs }

\* ------------------------------------------------------------------ tasks
\* the slot a handler that starts in session c is given
FreeSlots(c) == { h \in Slots : task[c][h].pc = "idle" }
NewSlot(c) == CHOOSE h \in FreeSlots(c) : \A o \in FreeSlots(c) : h <= o

\* the handlers in flight of session c that end by starting a timer
WillSetTimer(c) ==
  { h \in Slots : task[c][h].op \in { "submit", "calc", "check" } }

\* session c may start one more handler that ends by starting a timer
TimerLeft(c) == timers[c] + Cardinality(WillSetTimer(c)) < MaxTimers

\* ----------------------------------------------------------- loadCampaigns
\* loadCampaigns is called inside handler op, which task h of session c runs:
\* setIsRefreshing(true), then getContractReadOnly() is awaited
BeginLoad(c, h, op) ==
  /\ task' = [task EXCEPT ![c][h] = [Idle EXCEPT !.pc = "load_contract", !.op = op]]
  /\ isRefreshing' = [isRefreshing EXCEPT ![c] = TRUE]
  /\ UNCHANGED << loading, campaigns, creating >>

\* loadCampaigns returns (finally), and with it the handler that awaited it:
\* submitCampaign and calculateCarbon start the timer that hides the status.
\* setList: setCampaigns(list) was reached.
EndLoad(c, h, setList, list) ==
  LET op == task[c][h].op IN
    /\ campaigns' = IF setList THEN [campaigns EXCEPT ![c] = list] ELSE campaigns
    /\ isRefreshing' = [isRefreshing EXCEPT ![c] = FALSE]
    /\ loading' = [loading EXCEPT ![c] = FALSE]
    /\ creating' = IF op = "submit" THEN [creating EXCEPT ![c] = FALSE] ELSE creating
    /\ timers' = IF op \in { "submit", "calc" } THEN [timers EXCEPT ![c] = @ + 1]
                 ELSE timers
    /\ task' = [task EXCEPT ![c][h] = Idle]
    /\ UNCHANGED transactionStatus

\* useEffect(() => { loadCampaigns()... }, []): the first load of a session,
\* behind the loading screen
Mount(c) ==
  /\ loading[c]
  /\ \A h \in Slots : task[c][h].pc = "idle"
  /\ BeginLoad(c, NewSlot(c), "load")
  /\ UNCHANGED << chainVars, pageVars, store, envVars, now, statusVars >>

\* the Refresh button (disabled while isRefreshing)
LoadStart(c) ==
  /\ ~loading[c]
  /\ ~isRefreshing[c]
  /\ FreeSlots(c) # {}
  /\ presses < MaxPresses
  /\ presses' = presses + 1
  /\ BeginLoad(c, NewSlot(c), "load")
  /\ UNCHANGED << chainVars, pageVars, store, transport, now, statusVars >>

\* await getContractReadOnly()
LoadContract(c, h) ==
  /\ task[c][h].pc = "load_contract"
  /\ \E out \in ContractResults :
       IF out = "ok"
       THEN /\ task' = [task EXCEPT ![c][h].pc = "load_available"]
            /\ UNCHANGED << viewVars, statusVars >>
       ELSE EndLoad(c, h, FALSE, <<>>)
  /\ UNCHANGED << chainVars, pageVars, store, envVars, now >>

\* await contract.isAvailable()
LoadAvailable(c, h) ==
  /\ task[c][h].pc = "load_available"
  /\ \E out \in AvailableResults :
       IF out = "true"
       THEN /\ task' = [task EXCEPT ![c][h].pc = "load_keys"]
            /\ UNCHANGED << viewVars, statusVars >>
       ELSE EndLoad(c, h, FALSE, <<>>)
  /\ UNCHANGED << chainVars, pageVars, store, envVars, now >>

\* await contract.getData("campaign_keys")
LoadKeysMut(c, h) ==
  /\ task[c][h].pc = "load_keys"
  /\ LET keys == parseKeys(store[KeysKey])
     IN \E ok \in Outcomes(KeysKey) :
          IF ~ok \/ keys = <<>> THEN EndLoad(c, h, FALSE, <<>>)
             ELSE /\ task' = [task EXCEPT ![c][h].pc = "load_item",
                                          ![c][h].keys = keys, ![c][h].i = 1]
                  /\ UNCHANGED << viewVars, statusVars >>
  /\ UNCHANGED << chainVars, pageVars, store, envVars, now >>

LoadKeys(c, h) ==
  /\ task[c][h].pc = "load_keys"
  /\ LET keys == parseKeys(store[KeysKey])
     IN \E ok \in Outcomes(KeysKey) :
          IF ~ok THEN EndLoad(c, h, FALSE, <<>>)
             ELSE IF keys = <<>> THEN EndLoad(c, h, TRUE, <<>>)
             ELSE /\ task' = [task EXCEPT ![c][h].pc = "load_item",
                                          ![c][h].keys = keys, ![c][h].i = 1]
                  /\ UNCHANGED << viewVars, statusVars >>
  /\ UNCHANGED << chainVars, pageVars, store, envVars, now >>

\* what one round of the loop pushes for key: the read returned (ok) bytes
itemEntriesMut(key, ok, bytes) ==
  IF ok /\ Len(bytes) > 0
  THEN << listEntry(key, IF parses(bytes) THEN JSON_parse(toUtf8String(bytes))
                                          ELSE NoCampaign) >>
  ELSE <<>>
itemEntries(key, ok, bytes) ==
  IF ok /\ Len(bytes) > 0 /\ parses(bytes)
  THEN << listEntry(key, JSON_parse(toUtf8String(bytes))) >>
  ELSE <<>>

\* one round of the loop: await contract.getData(`campaign_${key}`)
LoadItem(c, h) ==
  /\ task[c][h].pc = "load_item"
  /\ LET key   == task[c][h].keys[task[c][h].i]
         bytes == store[campaignKey(key)]
     IN \E ok \in Outcomes(campaignKey(key)) :
          LET list == task[c][h].list \o itemEntries(key, ok, bytes)
             IN IF task[c][h].i < Len(task[c][h].keys)
                THEN /\ task' = [task EXCEPT ![c][h].list = list, ![c][h].i = @ + 1]
                     /\ UNCHANGED << viewVars, statusVars >>
                ELSE EndLoad(c, h, TRUE, sortByTimestampDesc(list))
  /\ UNCHANGED << chainVars, pageVars, store, envVars, now >>

\* ---------------------------------------------------------- submitCampaign
\* The catch block of handler op, which caught e, and finally.  Every catch
\* block reads e.message, which throws when e is undefined or null; the one
\* of submitCampaign calls e.message.includes(...), which throws as well when
\* e has no message.  When the catch block throws, the status is left as it
\* is and no timer is started.
Catch(c, h, e) ==
  LET op == task[c][h].op
      shown == e = "Error" \/ (e = "no message" /\ op # "submit")
  IN  /\ creating' = IF op = "submit" THEN [creating EXCEPT ![c] = FALSE] ELSE creating
      /\ task' = [task EXCEPT ![c][h] = Idle]
      /\ transactionStatus' =
           IF shown THEN [transactionStatus EXCEPT ![c] = "error"]
           ELSE transactionStatus
      /\ timers' = IF shown THEN [timers EXCEPT ![c] = @ + 1] ELSE timers
      /\ UNCHANGED << loading, campaigns, isRefreshing >>

\* ids that are stored, the submits that have generated one and are about to
\* store it, and the submits that have yet to generate one
UsedIds == { id \in Ids : store[campaignKey(id)] # EmptyBytes }
HeldIds ==
  { task[c][h].id : c \in Clients, h \in Slots } \cap Ids
Pending ==
  { << c, h >> \in Clients \X Slots : task[c][h].pc = "submit_signer" }

\* `${Date.now()}-${Math.random()...}`: an id no record and no handler has
newCampaignId ==
  CHOOSE id \in Ids \ (UsedIds \cup HeldIds) :
    \A o \in Ids \ (UsedIds \cup HeldIds) : id <= o

\* "Create Campaign" (disabled while creating): ModalCreate.handleSubmit,
\* then submitCampaign up to its first await.  account and provider are the
\* session's.
SubmitStart(c, form, account, provider) ==
  /\ ~loading[c]
  /\ ~creating[c]
  /\ handleSubmitOk(form)
  /\ provider
  /\ Cardinality(UsedIds \cup HeldIds) + Cardinality(Pending) < MaxCampaigns
  /\ FreeSlots(c) # {}
  /\ TimerLeft(c)
  /\ presses < MaxPresses
  /\ presses' = presses + 1
  /\ task' = [task EXCEPT ![c][NewSlot(c)] =
                [Idle EXCEPT !.pc = "submit_signer", !.op = "submit",
                             !.account = account, !.form = form]]
  /\ creating' = [creating EXCEPT ![c] = TRUE]
  /\ transactionStatus' = [transactionStatus EXCEPT ![c] = "pending"]
  /\ UNCHANGED << chainVars, pageVars, store, transport, now,
                  loading, campaigns, isRefreshing, timers >>

\* await getContractWithSigner(); then the id and the record are fixed at
\* Date.now() and setData is called
SubmitSigner(c, h) ==
  /\ task[c][h].pc = "submit_signer"
  /\ \E out \in SignerOutcomes :
       IF out = "ok"
       THEN \E ms \in DateNow :
              /\ now' = ms
              /\ task' = [task EXCEPT ![c][h].pc = "submit_set_record",
                            ![c][h].id = newCampaignId,
                            ![c][h].form = NoForm,
                            ![c][h].campaignData =
                               campaignData(task[c][h].form, task[c][h].account, ms)]
              /\ UNCHANGED << viewVars, statusVars >>
       ELSE /\ \E e \in (IF out = "null" THEN { "Error" } ELSE Thrown) : Catch(c, h, e)
            /\ UNCHANGED now
  /\ UNCHANGED << chainVars, pageVars, store, envVars >>

\* await contract.setData(`campaign_${campaignId}`, ...)
SubmitSetRecord(c, h) ==
  /\ task[c][h].pc = "submit_set_record"
  /\ \E ok \in Outcomes(campaignKey(task[c][h].id)) :
       IF ok
       THEN /\ store' = [store EXCEPT ![campaignKey(task[c][h].id)] =
                           recordBytes(task[c][h].campaignData)]
            /\ task' = [task EXCEPT ![c][h].pc = "submit_get_keys",
                                    ![c][h].campaignData = NoCampaign]
            /\ UNCHANGED << viewVars, statusVars >>
       ELSE /\ \E e \in Thrown : Catch(c, h, e)
            /\ UNCHANGED store
  /\ UNCHANGED << chainVars, pageVars, envVars, now >>

\* await contract.getData("campaign_keys")
SubmitGetKeys(c, h) ==
  /\ task[c][h].pc = "submit_get_keys"
  /\ \E ok \in Outcomes(KeysKey) :
       IF ok
       THEN /\ task' = [task EXCEPT ![c][h].pc = "submit_set_keys",
                                    ![c][h].keys = parseKeys(store[KeysKey])]
            /\ UNCHANGED << viewVars, statusVars >>
       ELSE \E e \in Thrown : Catch(c, h, e)
  /\ UNCHANGED << chainVars, pageVars, store, envVars, now >>

\* keys.push(campaignId): the array written back
pushedKeysMut(keys, id) == Append(parseKeys(store[KeysKey]), id)
pushedKeys(keys, id) == Append(keys, id)

\* await contract.setData("campaign_keys", ...), then the status and the
\* call of loadCampaigns
SubmitSetKeys(c, h) ==
  /\ task[c][h].pc = "submit_set_keys"
  /\ \E ok \in Outcomes(KeysKey) :
       IF ok
       THEN /\ store' = [store EXCEPT ![KeysKey] =
                  toUtf8Bytes(JSON_stringify(pushedKeys(task[c][h].keys, task[c][h].id)))]
            /\ transactionStatus' = [transactionStatus EXCEPT ![c] = "success"]
            /\ BeginLoad(c, h, "submit")
            /\ UNCHANGED timers
       ELSE /\ \E e \in Thrown : Catch(c, h, e)
            /\ UNCHANGED store
  /\ UNCHANGED << chainVars, pageVars, envVars, now >>

\* --------------------------------------------------------- calculateCarbon
\* the condition under which a row of the list shows the Calculate button
showCalculateMut(account, campaign) == campaign.status = "processing"
showCalculate(account, campaign) ==
  isOwner(account, campaign.owner) /\ campaign.status = "processing"

\* "Calculate" on row k of the page shown: calculateCarbon up to its first
\* await.  account and provider are the session's.
CalcStart(c, k, account, provider) ==
  LET rows == currentItems(campaigns[c], searchTerm[c], currentPage[c]) IN
    /\ ~loading[c]
    /\ provider
    /\ FreeSlots(c) # {}
    /\ TimerLeft(c)
    /\ presses < MaxPresses
    /\ k \in DOMAIN rows
    /\ showCalculate(account, rows[k])
    /\ presses' = presses + 1
    /\ task' = [task EXCEPT ![c][NewSlot(c)] =
                  [Idle EXCEPT !.pc = "calc_delay", !.op = "calc",
                               !.account = account, !.id = rows[k].id]]
    /\ transactionStatus' = [transactionStatus EXCEPT ![c] = "pending"]
    /\ UNCHANGED << chainVars, pageVars, store, transport, now, viewVars, timers >>

\* await new Promise(resolve => setTimeout(resolve, 3000))
CalcDelay(c, h) ==
  /\ task[c][h].pc = "calc_delay"
  /\ task' = [task EXCEPT ![c][h].pc = "calc_signer"]
  /\ UNCHANGED << chainVars, pageVars, store, envVars, now, viewVars, statusVars >>

\* await getContractWithSigner()
CalcSigner(c, h) ==
  /\ task[c][h].pc = "calc_signer"
  /\ \E out \in SignerOutcomes :
       IF out = "ok"
       THEN /\ task' = [task EXCEPT ![c][h].pc = "calc_get"]
            /\ UNCHANGED << viewVars, statusVars >>
       ELSE \E e \in (IF out = "null" THEN { "Error" } ELSE Thrown) : Catch(c, h, e)
  /\ UNCHANGED << chainVars, pageVars, store, envVars, now >>

\* await contract.getData(`campaign_${campaignId}`), then the formula
CalcGet(c, h) ==
  /\ task[c][h].pc = "calc_get"
  /\ LET bytes == store[campaignKey(task[c][h].id)]
     IN \E ok \in Outcomes(campaignKey(task[c][h].id)) :
          IF ~ok THEN \E e \in Thrown : Catch(c, h, e)
             ELSE IF Len(bytes) = 0 \/ ~parses(bytes) THEN Catch(c, h, "Error")
             ELSE LET cd == JSON_parse(toUtf8String(bytes))
                  IN /\ task' = [task EXCEPT ![c][h].pc = "calc_set",
                                   ![c][h].updated = updatedCampaign(cd, carbonOf(cd))]
                     /\ UNCHANGED << viewVars, statusVars >>
  /\ UNCHANGED << chainVars, pageVars, store, envVars, now >>

\* await contract.setData(`campaign_${campaignId}`, ...), then the status and
\* the call of loadCampaigns
CalcSet(c, h) ==
  /\ task[c][h].pc = "calc_set"
  /\ \E ok \in Outcomes(campaignKey(task[c][h].id)) :
       IF ok
       THEN /\ store' = [store EXCEPT ![campaignKey(task[c][h].id)] =
                           recordBytes(task[c][h].updated)]
            /\ transactionStatus' = [transactionStatus EXCEPT ![c] = "success"]
            /\ BeginLoad(c, h, "calc")
            /\ UNCHANGED timers
       ELSE /\ \E e \in Thrown : Catch(c, h, e)
            /\ UNCHANGED store
  /\ UNCHANGED << chainVars, pageVars, envVars, now >>

\* ------------------------------------------------------- checkAvailability
\* "Check FHE Status": checkAvailability up to its first await
CheckStart(c) ==
  /\ ~loading[c]
  /\ FreeSlots(c) # {}
  /\ TimerLeft(c)
  /\ presses < MaxPresses
  /\ presses' = presses + 1
  /\ task' = [task EXCEPT ![c][NewSlot(c)] =
                [Idle EXCEPT !.pc = "check_contract", !.op = "check"]]
  /\ UNCHANGED << chainVars, pageVars, store, transport, now, viewVars, statusVars >>

\* checkAvailability shows status and starts the timer that hides it
EndCheck(c, h, status) ==
  /\ transactionStatus' = [transactionStatus EXCEPT ![c] = status]
  /\ timers' = [timers EXCEPT ![c] = @ + 1]
  /\ task' = [task EXCEPT ![c][h] = Idle]

\* the catch block of checkAvailability, which caught e
CheckCatch(c, h, e) ==
  IF e = "undefined"
  THEN /\ task' = [task EXCEPT ![c][h] = Idle]
       /\ UNCHANGED statusVars
  ELSE EndCheck(c, h, "error")

\* await getContractReadOnly()
CheckContract(c, h) ==
  /\ task[c][h].pc = "check_contract"
  /\ \E out \in ContractResults :
       IF out = "ok"
       THEN /\ task' = [task EXCEPT ![c][h].pc = "check_available"]
            /\ UNCHANGED statusVars
       ELSE IF out = "null"
       THEN /\ task' = [task EXCEPT ![c][h] = Idle]
            /\ UNCHANGED statusVars
       ELSE \E e \in Thrown : CheckCatch(c, h, e)
  /\ UNCHANGED << chainVars, pageVars, store, envVars, now, viewVars >>

\* await contract.isAvailable(): either answer is shown as a success
CheckAvailable(c, h) ==
  /\ task[c][h].pc = "check_available"
  /\ \E out \in AvailableResults :
       IF out = "throw" THEN \E e \in Thrown : CheckCatch(c, h, e)
       ELSE EndCheck(c, h, "success")
  /\ UNCHANGED << chainVars, pageVars, store, envVars, now, viewVars >>

\* ------------------------------------------------------------------ timers
\* a setTimeout callback of submitCampaign, calculateCarbon or
\* checkAvailability runs: the status modal is hidden
HideStatus(c) ==
  /\ timers[c] > 0
  /\ timers' = [timers EXCEPT ![c] = @ - 1]
  /\ transactionStatus' = [transactionStatus EXCEPT ![c] = "hidden"]
  /\ UNCHANGED << chainVars, pageVars, store, envVars, now, viewVars, task >>

\* ----------------------------------------------- AdCarbonFHE: functions
\* modifier onlyAdvertiser
onlyAdvertiserMut(sender, campaignId) ==
  TRUE

onlyAdvertiser(sender, campaignId) ==
  encryptedCampaigns[campaignId].advertiser = sender

calculateEncryptedCO2(impressions, clicks, dataTransfer, serverEnergy) ==
  LET dataFactor == FHE_asEuint(2)
      energyFactor == FHE_asEuint(500)
      dataCO2 == FHE_mul(dataTransfer, dataFactor)
      energyCO2 == FHE_mul(serverEnergy, energyFactor)
  IN  FHE_add(dataCO2, energyCO2)

getCampaign(campaignId) ==
  [advertiser |-> encryptedCampaigns[campaignId].advertiser,
   timestamp |-> encryptedCampaigns[campaignId].timestamp,
   isFootprintCalculated |-> FHE_isInitialized(carbonFootprints[campaignId].encryptedCO2),
   isFootprintRevealed |-> carbonFootprints[campaignId].isRevealed]

\* FHE.requestDecryption: the oracle numbers the requests it is sent
FHE_requestDecryption(ciphertexts, selector) ==
  Append(decryptionRequests,
         [ciphertexts |-> ciphertexts, selector |-> selector, answered |-> FALSE])

\* FHE.checkSignatures accepts the oracle's answer to a request: the oracle
\* answers each request once, through the callback the request named.
FHE_checkSignatures(requestId, selector) ==
  /\ requestId <= Len(decryptionRequests)
  /\ decryptionRequests[requestId].selector = selector
  /\ ~decryptionRequests[requestId].answered

cleartextsOf(requestId) ==
  [i \in 1 .. Len(decryptionRequests[requestId].ciphertexts) |->
     FHE_decrypt(decryptionRequests[requestId].ciphertexts[i])]

submitEncryptedCampaign(sender, m) ==
  /\ campaignCount < MaxChainCampaigns
  /\ LET newId == campaignCount + 1 IN
       /\ campaignCount' = newId
       /\ encryptedCampaigns' = [encryptedCampaigns EXCEPT ![newId] =
            [id |-> newId,
             encryptedImpressions |-> FHE_input(m[1]),
             encryptedClicks |-> FHE_input(m[2]),
             encryptedDataTransfer |-> FHE_input(m[3]),
             encryptedServerEnergy |-> FHE_input(m[4]),
             timestamp |-> BlockTimestamp,
             advertiser |-> sender]]
       /\ carbonFootprints' = [carbonFootprints EXCEPT ![newId] =
            [encryptedCO2 |-> FHE_asEuint(0), isRevealed |-> FALSE, timestamp |-> 0]]
       /\ receipt' = [fn |-> "submitEncryptedCampaign", sender |-> sender,
                      arg |-> newId, status |-> "ok"]
  /\ UNCHANGED << requestToCampaignId, decryptionRequests, footprintRevealed >>
  /\ UNCHANGED << appVars, pageVars >>

\* the require chain of requestCarbonFootprint: the revert reason, or "ok"
requestResult(sender, campaignId) ==
  IF ~onlyAdvertiser(sender, campaignId) THEN "Not campaign owner"
  ELSE IF carbonFootprints[campaignId].isRevealed THEN "Already calculated"
  ELSE "ok"

requestCarbonFootprint(sender, campaignId) ==
  LET result == requestResult(sender, campaignId)
      campaign == encryptedCampaigns[campaignId]
      ciphertexts == << campaign.encryptedImpressions, campaign.encryptedClicks,
                        campaign.encryptedDataTransfer, campaign.encryptedServerEnergy >>
  IN  /\ receipt' = [fn |-> "requestCarbonFootprint", sender |-> sender,
                     arg |-> campaignId, status |-> result]
      /\ IF result = "ok"
         THEN /\ Len(decryptionRequests) < MaxRequests
              /\ decryptionRequests' = FHE_requestDecryption(ciphertexts, "calculateFootprint")
              /\ requestToCampaignId' =
                   [requestToCampaignId EXCEPT ![Len(decryptionRequests')] = campaignId]
              /\ UNCHANGED << campaignCount, encryptedCampaigns, carbonFootprints,
                              footprintRevealed >>
         ELSE UNCHANGED storageVars
      /\ UNCHANGED << appVars, pageVars >>

\* the require chain of a callback: the revert reason, or "ok"
callbackResult(requestId, selector) ==
  IF requestToCampaignId[requestId] = 0 THEN "Invalid request"
  ELSE IF ~FHE_checkSignatures(requestId, selector) THEN "checkSignatures"
  ELSE "ok"

calculateFootprint(requestId) ==
  LET result == callbackResult(requestId, "calculateFootprint")
      campaignId == requestToCampaignId[requestId]
  IN  /\ receipt' = [fn |-> "calculateFootprint", sender |-> Relayer,
                     arg |-> requestId, status |-> result]
      /\ IF result = "ok"
         THEN LET results == cleartextsOf(requestId)
                  encryptedCO2 == calculateEncryptedCO2(
                                    FHE_asEuint(results[1]), FHE_asEuint(results[2]),
                                    FHE_asEuint(results[3]), FHE_asEuint(results[4]))
              IN  /\ carbonFootprints' =
                       [carbonFootprints EXCEPT ![campaignId].encryptedCO2 = encryptedCO2]
                  /\ decryptionRequests' =
                       [decryptionRequests EXCEPT ![requestId].answered = TRUE]
                  /\ UNCHANGED << campaignCount, encryptedCampaigns,
                                  requestToCampaignId, footprintRevealed >>
         ELSE UNCHANGED storageVars
      /\ UNCHANGED << appVars, pageVars >>

\* the require chain of revealCarbonFootprint: the revert reason, or "ok"
revealResultMut(sender, campaignId) ==
  IF ~onlyAdvertiser(sender, campaignId) THEN "Not campaign owner"
  ELSE IF ~FHE_isInitialized(carbonFootprints[campaignId].encryptedCO2)
  THEN "Not calculated yet"
  ELSE "ok"

revealResult(sender, campaignId) ==
  IF ~onlyAdvertiser(sender, campaignId) THEN "Not campaign owner"
  ELSE IF carbonFootprints[campaignId].isRevealed THEN "Already revealed"
  ELSE IF ~FHE_isInitialized(carbonFootprints[campaignId].encryptedCO2)
  THEN "Not calculated yet"
  ELSE "ok"

revealCarbonFootprint(sender, campaignId) ==
  LET result == revealResult(sender, campaignId)
      ciphertexts == << carbonFootprints[campaignId].encryptedCO2 >>
  IN  /\ receipt' = [fn |-> "revealCarbonFootprint", sender |-> sender,
                     arg |-> campaignId, status |-> result]
      /\ IF result = "ok"
         THEN /\ Len(decryptionRequests) < MaxRequests
              /\ decryptionRequests' = FHE_requestDecryption(ciphertexts, "finalizeReveal")
              /\ requestToCampaignId' =
                   [requestToCampaignId EXCEPT ![Len(decryptionRequests')] = campaignId]
              /\ UNCHANGED << campaignCount, encryptedCampaigns, carbonFootprints,
                              footprintRevealed >>
         ELSE UNCHANGED storageVars
      /\ UNCHANGED << appVars, pageVars >>

finalizeReveal(requestId) ==
  LET result == callbackResult(requestId, "finalizeReveal")
      campaignId == requestToCampaignId[requestId]
  IN  /\ receipt' = [fn |-> "finalizeReveal", sender |-> Relayer,
                     arg |-> requestId, status |-> result]
      /\ IF result = "ok"
         THEN LET co2Amount == cleartextsOf(requestId)[1] IN
                /\ carbonFootprints' =
                     [carbonFootprints EXCEPT ![campaignId].isRevealed = TRUE,
                                              ![campaignId].timestamp = BlockTimestamp]
                /\ footprintRevealed' =
                     Append(footprintRevealed,
                            [campaignId |-> campaignId, co2Amount |-> co2Amount])
                /\ decryptionRequests' =
                     [decryptionRequests EXCEPT ![requestId].answered = TRUE]
                /\ UNCHANGED << campaignCount, encryptedCampaigns, requestToCampaignId >>
         ELSE UNCHANGED storageVars
      /\ UNCHANGED << appVars, pageVars >>

\* ------------------------------------------------- search and pagination
\* the search box: onChange={(e) => setSearchTerm(e.target.value)}
setSearchTerm(c, term) ==
  /\ ~loading[c]
  /\ term # searchTerm[c]
  /\ presses < MaxPresses
  /\ presses' = presses + 1
  /\ searchTerm' = [searchTerm EXCEPT ![c] = term]
  /\ UNCHANGED << currentPage, chainVars, store, transport, now, viewVars,
                  statusVars, task >>

\* the pagination buttons: rendered with the rows, when there is more than
\* one page; Previous and Next are disabled at the ends
pageButtons(list, term, page) ==
  IF currentItems(list, term, page) = << >> \/ totalPages(list, term) <= 1
  THEN { }
  ELSE (1 .. totalPages(list, term))
         \cup (IF page = 1 THEN { } ELSE { page - 1 })
         \cup (IF page = totalPages(list, term) THEN { } ELSE { page + 1 })

paginate(c, pageNumber) ==
  /\ ~loading[c]
  /\ presses < MaxPresses
  /\ pageNumber \in pageButtons(campaigns[c], searchTerm[c], currentPage[c])
  /\ presses' = presses + 1
  /\ currentPage' = [currentPage EXCEPT ![c] = pageNumber]
  /\ UNCHANGED << searchTerm, chainVars, store, transport, now, viewVars,
                  statusVars, task >>

\* ---------------------------------------------------------- specification
\* the steps of the sessions in cs
NextOf(cs) ==
  \/ \E c \in cs : Mount(c)
  \/ \E c \in cs : LoadStart(c)
  \/ \E c \in cs, h \in Slots : LoadContract(c, h)
  \/ \E c \in cs, h \in Slots : LoadAvailable(c, h)
  \/ \E c \in cs, h \in Slots : LoadKeys(c, h)
  \/ \E c \in cs, h \in Slots : LoadItem(c, h)
  \/ \E c \in cs, form \in Forms, account \in Submitters,
        provider \in BOOLEAN : SubmitStart(c, form, account, provider)
  \/ \E c \in cs, h \in Slots : SubmitSigner(c, h)
  \/ \E c \in cs, h \in Slots : SubmitSetRecord(c, h)
  \/ \E c \in cs, h \in Slots : SubmitGetKeys(c, h)
  \/ \E c \in cs, h \in Slots : SubmitSetKeys(c, h)
  \/ \E c \in cs, k \in 1..itemsPerPage, account \in Accounts,
        provider \in BOOLEAN : CalcStart(c, k, account, provider)
  \/ \E c \in cs, h \in Slots : CalcDelay(c, h)
  \/ \E c \in cs, h \in Slots : CalcSigner(c, h)
  \/ \E c \in cs, h \in Slots : CalcGet(c, h)
  \/ \E c \in cs, h \in Slots : CalcSet(c, h)
  \/ \E c \in cs : CheckStart(c)
  \/ \E c \in cs, h \in Slots : CheckContract(c, h)
  \/ \E c \in cs, h \in Slots : CheckAvailable(c, h)
  \/ \E c \in cs : HideStatus(c)
  \/ \E c \in cs, term \in { << >>, << "A" >> } : setSearchTerm(c, term)
  \/ \E c \in cs, pageNumber \in 1 .. MaxViewItems : paginate(c, pageNumber)

Next == NextOf(Clients)

Spec == Init /\ [][Next]_vars

\* ------------------------------------------- loadCampaigns over any store
\* The store is not the program's alone: loadCampaigns has to cope with
\* whatever the contract holds.  Here the store is drawn freely and stays as
\* drawn, the calls that throw are fixed by transport.down, and a session
\* only loads.
LoadKeySet == { KeysKey } \cup { campaignKey(id) : id \in LoadIds }

\* key arrays without repetition
LoadKeyArrays ==
  { ks \in UNION { [1..n -> LoadIds] : n \in 0..MaxLoadIds } :
      \A i, j \in DOMAIN ks : ks[i] = ks[j] => i = j }

LoadRecords ==
  { campaignData(Form(<< "C", "1" >>, 2, 10, 1000, 5), << "0", "x", "A" >>, StartMs),
    updatedCampaign(campaignData(Form(<< "C", "2" >>, 1, -50, 0, 0), << "0", "x", "B" >>,
                                 StartMs + MsPerSecond), 0) }

LoadBlobs   == { EmptyBytes, GarbageBytes } \cup { recordBytes(cd) : cd \in LoadRecords }
LoadIndexes == { EmptyBytes, GarbageBytes }
                 \cup { toUtf8Bytes(JSON_stringify(ks)) : ks \in LoadKeyArrays }

\* what the contract does in a run: it answers, getContractReadOnly() gives
\* null or throws, or isAvailable() answers false
LoadTransports == { "ok", "null", "unavailable", "throw" }

InitLoad ==
  \E ix \in LoadIndexes, recs \in [LoadIds -> LoadBlobs],
     down \in SUBSET LoadKeySet, out \in LoadTransports :
    InitOver([k \in LoadKeySet |-> IF k = KeysKey THEN ix ELSE recs[k[2]]],
             [flaky |-> FALSE, down |-> down, contract |-> out], TRUE, << >>)

\* the store stays as drawn, so no session changes what another one loads:
\* one session is followed
Loaders == { c \in Clients : \A d \in Clients : c <= d }

NextLoad ==
  \/ \E c \in Loaders : Mount(c)
  \/ \E c \in Loaders : LoadStart(c)
  \/ \E c \in Loaders, h \in Slots : LoadContract(c, h)
  \/ \E c \in Loaders, h \in Slots : LoadAvailable(c, h)
  \/ \E c \in Loaders, h \in Slots : LoadKeys(c, h)
  \/ \E c \in Loaders, h \in Slots : LoadItem(c, h)

SpecLoad == InitLoad /\ [][NextLoad]_vars

\* ------------------------------------- loadCampaigns over a list gone stale
\* As SpecLoad, for sessions that already show a list when the store is
\* drawn: the list of an earlier load, of a store that has changed since.
StaleList ==
  << listEntry(1, campaignData(Form(<< "C", "1" >>, 2, 10, 1000, 5), << "0", "x", "A" >>,
                               StartMs)) >>

InitStale ==
  \E ix \in LoadIndexes, recs \in [LoadIds -> LoadBlobs], down \in SUBSET { KeysKey } :
    InitOver([k \in LoadKeySet |-> IF k = KeysKey THEN ix ELSE recs[k[2]]],
             [flaky |-> FALSE, down |-> down, contract |-> "any"], FALSE, StaleList)

NextStale ==
  \/ \E c \in Clients : LoadStart(c)
  \/ \E c \in Clients, h \in Slots : LoadContract(c, h)
  \/ \E c \in Clients, h \in Slots : LoadAvailable(c, h)
  \/ \E c \in Clients, h \in Slots : LoadKeys(c, h)
  \/ \E c \in Clients, h \in Slots : LoadItem(c, h)

SpecStale == InitStale /\ [][NextStale]_vars

\* ------------------------------------------- one session over the ledger
\* A session constructed over the ledger, with no call failing: the lists
\* it shows are those its loadCampaigns set.
InitView ==
  InitOver(LedgerStore, [flaky |-> FALSE, down |-> {}, contract |-> "ok"], TRUE, << >>)

NextView == NextOf(Loaders)

SpecView == InitView /\ [][NextView]_vars

\* --------------------------------------------------- the contract on its own
InitContract ==
  InitOver(EmptyStore, [flaky |-> TRUE, down |-> {}, contract |-> "any"], TRUE, << >>)

NextContract ==
  \/ \E sender \in Senders, m \in ChainMetrics : submitEncryptedCampaign(sender, m)
  \/ \E sender \in Senders, campaignId \in ChainIds :
       requestCarbonFootprint(sender, campaignId)
  \/ \E requestId \in RequestIds : calculateFootprint(requestId)
  \/ \E sender \in Senders, campaignId \in ChainIds :
       revealCarbonFootprint(sender, campaignId)
  \/ \E requestId \in RequestIds : finalizeReveal(requestId)

SpecContract == InitContract /\ [][NextContract]_vars

\* ================================================================ properties
Elems(seq)           == { seq[i] : i \in DOMAIN seq }
indexOf(st)          == parseKeys(st[KeysKey])
hasRecordAt(st, id)  == parses(st[campaignKey(id)])
recordAt(st, id)     == JSON_parse(toUtf8String(st[campaignKey(id)]))
written(id)          == store'[campaignKey(id)] # store[campaignKey(id)]
\* task h of session c takes the step that leaves pc
leaves(c, h, pc)     == task[c][h].pc = pc /\ task'[c][h].pc # pc
CalcPcs == { "calc_delay", "calc_signer", "calc_get", "calc_set" }
LoadPcs == { "load_contract", "load_available", "load_keys", "load_item" }

\* C1: calculateCarbon is never run for a record by a session whose account
\* differs, compared case-insensitively, from the record's owner: every
\* calculateCarbon in flight was invoked by the owner, and a stored record is
\* only ever changed by the write of such a call.
OwnerOnlyCompute ==
  [][ /\ \A c \in Clients, h \in Slots :
           task[c][h].pc \in CalcPcs =>
             /\ hasRecordAt(store, task[c][h].id)
             /\ isOwner(task[c][h].account, recordAt(store, task[c][h].id).owner)
      /\ \A id \in StoredIds :
           (hasRecordAt(store, id) /\ written(id)) =>
             \E c \in Clients, h \in Slots :
               /\ leaves(c, h, "calc_set")
               /\ task[c][h].id = id
               /\ isOwner(task[c][h].account, recordAt(store, id).owner) ]_vars

\* A session lists a processing campaign for which some account that is not
\* the owner is shown no Calculate button, the stored record is still
\* processing, and a session whose account differs from the owner only in
\* case has calculateCarbon in flight for it.
WitnessOwnerOnlyCompute ==
  \E c, d \in Clients, h \in Slots :
    \E k \in DOMAIN campaigns[c] : \E acc \in Accounts :
      LET row == campaigns[c][k] IN
        /\ row.status = "processing"
        /\ ~isOwner(acc, row.owner)
        /\ ~showCalculate(acc, row)
        /\ hasRecordAt(store, row.id)
        /\ recordAt(store, row.id).status = "processing"
        /\ task[d][h].pc = "calc_set" /\ task[d][h].id = row.id
        /\ task[d][h].account # row.owner

\* C2: a calculateCarbon that reads a record whose stored status is already
\* completed stops there: it does not go on to compute and write the record
\* again.
CompletedNotRecomputed ==
  [][ \A c \in Clients, h \in Slots :
        ( /\ task[c][h].pc = "calc_get"
          /\ hasRecordAt(store, task[c][h].id)
          /\ recordAt(store, task[c][h].id).status = "completed" )
        => task'[c][h].pc # "calc_set" ]_vars

\* C3: a stored record stays stored, and its status either stays as it is or
\* moves from processing to completed or to error.
StatusMonotonic ==
  [][ \A id \in StoredIds :
        hasRecordAt(store, id) =>
          /\ hasRecordAt(store', id)
          /\ LET a == recordAt(store, id).status
                 b == recordAt(store', id).status
             IN \/ b = a
                \/ a = "processing" /\ b \in { "completed", "error" } ]_vars

\* a completed record with a calculateCarbon about to write it again
WitnessStatusMonotonic ==
  \E c \in Clients, h \in Slots :
    /\ task[c][h].pc = "calc_set"
    /\ hasRecordAt(store, task[c][h].id)
    /\ recordAt(store, task[c][h].id).status = "completed"

\* C4: when a submitCampaign writes the index back although the index changed
\* since that call read it, the call is not stopped, the index becomes the
\* array the call read plus its own id, and every id added in between is
\* no longer in the index although its record is stored.
LostIndexAppend ==
  [][ \A c \in Clients, h \in Slots :
        ( /\ leaves(c, h, "submit_set_keys")
          /\ store'[KeysKey] # store[KeysKey]
          /\ indexOf(store) # task[c][h].keys )
        => /\ indexOf(store') = Append(task[c][h].keys, task[c][h].id)
           /\ task'[c][h].op = "submit" /\ task'[c][h].pc = "load_contract"
           /\ transactionStatus'[c] = "success"
           /\ \A id \in Elems(indexOf(store)) \ Elems(task[c][h].keys) :
                /\ id \notin Elems(indexOf(store'))
                /\ hasRecordAt(store', id) ]_vars

\* Both submits are over: the index holds one id, and a session still lists a
\* campaign (it was in the index when that session reloaded after its own
\* submit) that is stored but no longer in the index.
WitnessLostIndexAppend ==
  /\ \A c \in Clients, h \in Slots : task[c][h].pc = "idle"
  /\ Len(indexOf(store)) = 1
  /\ \E c \in Clients : \E k \in DOMAIN campaigns[c] :
       /\ campaigns[c][k].id \notin Elems(indexOf(store))
       /\ hasRecordAt(store, campaigns[c][k].id)

\* C5 (under SpecLoad): a loadCampaigns that got past the read of the index
\* ends by setting the list to exactly one entry for each id of the index
\* whose record is read, is non-empty and parses, each entry built from that
\* record, and to nothing else; the other ids are skipped.
LoadYieldsReadable ==
  [][ \A c \in Clients, h \in Slots :
        ( /\ task[c][h].pc \in { "load_keys", "load_item" }
          /\ task'[c][h].pc = "idle"
          /\ KeysKey \notin transport.down )
        => LET good == { id \in Elems(indexOf(store)) :
                           /\ campaignKey(id) \notin transport.down
                           /\ hasRecordAt(store, id) }
               list == campaigns'[c]
           IN /\ Len(list) = Cardinality(good)
              /\ { list[k].id : k \in DOMAIN list } = good
              /\ \A k \in DOMAIN list :
                   list[k] = listEntry(list[k].id, recordAt(store, list[k].id)) ]_vars

\* A load has ended with one entry although the index names three ids: one
\* record is unparsable, one fails to read or is absent, one is listed.
WitnessLoadYieldsReadable ==
  \E c \in Clients :
    /\ \A h \in Slots : task[c][h].pc = "idle"
    /\ ~loading[c]
    /\ Len(campaigns[c]) = 1
    /\ Len(indexOf(store)) = 3
    /\ \E g, f \in Elems(indexOf(store)) :
         /\ store[campaignKey(g)] = GarbageBytes
         /\ campaignKey(g) \notin transport.down
         /\ \/ campaignKey(f) \in transport.down
            \/ store[campaignKey(f)] = EmptyBytes

\* C6: every id in the key index has a non-empty, parsable record stored
\* under campaign_<id>.
IndexBacked ==
  \A id \in Elems(indexOf(store)) : hasRecordAt(store, id)

\* the index names two ids, one computed and one not
WitnessIndexBacked ==
  /\ Len(indexOf(store)) = 2
  /\ \E a, b \in Elems(indexOf(store)) :
       /\ hasRecordAt(store, a) /\ recordAt(store, a).status = "completed"
       /\ hasRecordAt(store, b) /\ recordAt(store, b).status = "processing"

\* C7: when submitCampaign writes the index, the record it stored has status
\* processing, carbonFootprint 0 and the calling account as owner; and if the
\* index is still as the call read it, the written index is the old index
\* with the new id, which was not in it, appended at the end.
SubmitStoresAndAppends ==
  [][ \A c \in Clients, h \in Slots :
        ( /\ leaves(c, h, "submit_set_keys")
          /\ store'[KeysKey] # store[KeysKey] )
        => LET id == task[c][h].id IN
             /\ hasRecordAt(store', id)
             /\ recordAt(store', id).status = "processing"
             /\ recordAt(store', id).carbonFootprint = 0
             /\ recordAt(store', id).owner = task[c][h].account
             /\ task[c][h].account \in Submitters
             /\ indexOf(store) = task[c][h].keys =>
                  /\ id \notin Elems(indexOf(store))
                  /\ indexOf(store') = Append(indexOf(store), id) ]_vars

\* a submitCampaign has written the index, which held an id before, and is
\* now reloading the list
WitnessSubmitStoresAndAppends ==
  \E c \in Clients, h \in Slots :
    /\ task[c][h].op = "submit" /\ task[c][h].pc = "load_keys"
    /\ indexOf(store) = << 1, 2 >>
    /\ recordAt(store, 2).status = "processing"
    /\ recordAt(store, 2).carbonFootprint = 0

\* the sum servers*0.5 + bandwidth*0.02 + impressions*0.001 + duration*0.1
\* of real numbers, in thousandths
formulaMilli(d) ==
  d.servers * ServersFactor + d.bandwidth * BandwidthFactor
    + d.impressions * ImpressionsFactor + d.duration * DurationFactor

\* n is x rounded to the nearest integer, halves up, x given in thousandths:
\* n - 1/2 <= x < n + 1/2
IsRoundHalfUp(n, milli) ==
  /\ 2 * Milli * n - Milli <= 2 * milli
  /\ 2 * milli < 2 * Milli * n + Milli

\* C8: the write of calculateCarbon on a processing record stores status
\* completed and, as carbonFootprint, the sum servers*0.5 + bandwidth*0.02 +
\* impressions*0.001 + duration*0.1 of the stored metrics rounded to the
\* nearest integer, halves up; for 2, 10, 1000, 5 that is 3.
ComputeStoresFormula ==
  [][ \A id \in StoredIds :
        ( /\ hasRecordAt(store, id)
          /\ recordAt(store, id).status = "processing"
          /\ written(id) )
        => LET a == recordAt(store, id)
               b == recordAt(store', id)
               d == a.details
           IN /\ b.status = "completed"
              /\ b.details = d
              /\ IsRoundHalfUp(b.carbonFootprint, formulaMilli(d))
              /\ ( d = Metrics(2, 10, 1000, 5) => b.carbonFootprint = 3 ) ]_vars

\* C9: every stored record is processing with carbonFootprint 0 or completed
\* with the formula value of its metrics, halves rounded up, as
\* carbonFootprint.
FootprintMatchesStatus ==
  \A id \in StoredIds :
    hasRecordAt(store, id) =>
      LET cd == recordAt(store, id) IN
        \/ cd.status = "processing" /\ cd.carbonFootprint = 0
        \/ /\ cd.status = "completed"
           /\ IsRoundHalfUp(cd.carbonFootprint, formulaMilli(cd.details))

\* C10: the stored carbonFootprint of a record changes only in a step that
\* takes the record from processing with footprint 0 to completed with the
\* computed value; on a completed record it never changes.
FootprintSetOnce ==
  [][ \A id \in StoredIds :
        hasRecordAt(store, id) =>
          LET a == recordAt(store, id)
              b == recordAt(store', id)
          IN /\ a.status = "completed" => b.carbonFootprint = a.carbonFootprint
             /\ \/ b.carbonFootprint = a.carbonFootprint
                \/ /\ a.status = "processing" /\ a.carbonFootprint = 0
                   /\ b.status = "completed"
                   /\ b.carbonFootprint = carbonOf(a) ]_vars

\* a record completed with a footprint that is not 0, and a repeated
\* calculateCarbon for it that is about to write it again
WitnessFootprintSetOnce ==
  \E c \in Clients, h \in Slots :
    /\ task[c][h].pc = "calc_set"
    /\ hasRecordAt(store, task[c][h].id)
    /\ recordAt(store, task[c][h].id).status = "completed"
    /\ recordAt(store, task[c][h].id).carbonFootprint # 0

\* the place of id in the key array keys
posIn(keys, id) == CHOOSE k \in DOMAIN keys : keys[k] = id

\* C11 (under SpecLoad): the list a loadCampaigns sets is ordered by
\* timestamp, newest first, and entries with equal timestamps are in the
\* order their ids have in the key index.
LoadSortedStable ==
  [][ \A c \in Clients, h \in Slots :
        ( task[c][h].pc = "load_item" /\ task'[c][h].pc = "idle" )
        => LET list == campaigns'[c]
               keys == indexOf(store)
           IN \A i, j \in DOMAIN list :
                i < j =>
                  \/ list[i].timestamp > list[j].timestamp
                  \/ /\ list[i].timestamp = list[j].timestamp
                     /\ posIn(keys, list[i].id) < posIn(keys, list[j].id) ]_vars

\* a list of three: the newest entry first although its id is not first in
\* the index, then two entries with equal timestamps
WitnessLoadSortedStable ==
  \E c \in Clients :
    LET list == campaigns[c]
        keys == indexOf(store)
    IN /\ \A h \in Slots : task[c][h].pc = "idle"
       /\ Len(list) = 3
       /\ list[1].timestamp > list[2].timestamp
       /\ list[2].timestamp = list[3].timestamp
       /\ posIn(keys, list[1].id) > posIn(keys, list[2].id)

\* C12: when the loadCampaigns run by submitCampaign or calculateCarbon
\* cannot reach the store (no contract, isAvailable() fails, or the key index
\* cannot be read: the session's list is not empty and is left as it was,
\* where a read index would have replaced it), the failure reaches the
\* calling handler, whose status modal shows the error.
LoadFailurePropagates ==
  [][ \A c \in Clients, h \in Slots :
        ( /\ task[c][h].op \in { "submit", "calc" }
          /\ task'[c][h].pc = "idle"
          /\ \/ task[c][h].pc \in { "load_contract", "load_available" }
             \/ /\ task[c][h].pc = "load_keys"
                /\ campaigns[c] # <<>>
                /\ campaigns'[c] = campaigns[c] )
        => transactionStatus'[c] = "error" ]_vars

\* C13 (under SpecLoad): when isAvailable() answers false, the loadCampaigns
\* that asked goes on to read the key index.
AvailabilityNotRequired ==
  [][ \A c \in Clients, h \in Slots :
        ( leaves(c, h, "load_available") /\ transport.contract = "unavailable" )
        => task'[c][h].pc = "load_keys" ]_vars

\* C14: what an observer of the store sees of a campaign does not depend on
\* the metric values: a submitted record still in processing holds the bytes
\* that submitCampaign would have written for the same name, owner and time
\* with any other metrics the form accepts.
MetricsStayEncrypted ==
  \A id \in Ids :
    ( hasRecordAt(store, id) /\ recordAt(store, id).status = "processing" )
    => LET r == recordAt(store, id) IN
         \A f \in { g \in Forms : handleSubmitOk(g) } :
           store[campaignKey(id)] =
             recordBytes(campaignData([f EXCEPT !.name = r.name], r.owner,
                                      r.timestamp * MsPerSecond))

\* the transaction of this step is a call of fn on campaign id
calls(fn, id) == receipt'.fn = fn /\ receipt'.arg = id

\* C15 (under SpecContract): requestCarbonFootprint(c) and
\* revealCarbonFootprint(c) sent by anyone but the address that submitted c,
\* or for an id that was never submitted, revert with "Not campaign owner"
\* and leave the contract's storage as it was; sent by the submitter they
\* do not revert for that reason.
OnlyAdvertiserRequests ==
  [][ \A id \in ChainIds :
        ( calls("requestCarbonFootprint", id) \/ calls("revealCarbonFootprint", id) )
        => IF id \in 1 .. campaignCount
              /\ encryptedCampaigns[id].advertiser = receipt'.sender
           THEN receipt'.status # "Not campaign owner"
           ELSE /\ receipt'.status = "Not campaign owner"
                /\ UNCHANGED storageVars ]_vars

\* a request for a submitted campaign, sent by another address, has reverted
WitnessOnlyAdvertiserRequests ==
  /\ receipt.fn \in { "requestCarbonFootprint", "revealCarbonFootprint" }
  /\ receipt.arg \in 1 .. campaignCount
  /\ receipt.sender # encryptedCampaigns[receipt.arg].advertiser
  /\ receipt.status = "Not campaign owner"
  /\ decryptionRequests # << >>

\* a calculateFootprint callback has stored a footprint for campaign id
calculated(id) ==
  \E r \in DOMAIN decryptionRequests :
    /\ requestToCampaignId[r] = id
    /\ decryptionRequests[r].selector = "calculateFootprint"
    /\ decryptionRequests[r].answered

\* C17 (under SpecContract): revealCarbonFootprint(c) goes through only
\* after a calculateFootprint callback has stored a footprint for c.
RevealNeedsCalculation ==
  [][ \A id \in ChainIds :
        ( calls("revealCarbonFootprint", id) /\ receipt'.status = "ok" )
        => calculated(id) ]_vars

\* C18 (under SpecContract): a campaign that is revealed stays revealed, and
\* every later requestCarbonFootprint and revealCarbonFootprint for it
\* reverts ("Already calculated", "Already revealed"; "Not campaign owner"
\* for another sender) and records no request.
RevealedIsTerminal ==
  [][ \A id \in ChainIds :
        carbonFootprints[id].isRevealed
        => /\ carbonFootprints'[id].isRevealed
           /\ calls("requestCarbonFootprint", id)
              => /\ receipt'.status =
                      IF receipt'.sender = encryptedCampaigns[id].advertiser
                      THEN "Already calculated" ELSE "Not campaign owner"
                 /\ UNCHANGED << decryptionRequests, requestToCampaignId >>
           /\ calls("revealCarbonFootprint", id)
              => /\ receipt'.status =
                      IF receipt'.sender = encryptedCampaigns[id].advertiser
                      THEN "Already revealed" ELSE "Not campaign owner"
                 /\ UNCHANGED << decryptionRequests, requestToCampaignId >> ]_vars

\* a revealed campaign whose submitter has asked to reveal it again
WitnessRevealedIsTerminal ==
  \E id \in ChainIds :
    /\ carbonFootprints[id].isRevealed
    /\ receipt = [fn |-> "revealCarbonFootprint",
                  sender |-> encryptedCampaigns[id].advertiser,
                  arg |-> id, status |-> "Already revealed"]

\* C19 (under SpecContract): FootprintRevealed is emitted at most once for a
\* campaign.
RevealedOnce ==
  \A id \in ChainIds :
    Cardinality({ i \in DOMAIN footprintRevealed :
                    footprintRevealed[i].campaignId = id }) <= 1

\* the sum of the footprints of list from place i on
RECURSIVE sumFrom(_, _)
sumFrom(list, i) ==
  IF i > Len(list) THEN 0 ELSE list[i].carbonFootprint + sumFrom(list, i + 1)

\* C16: the average footprint a session shows is the sum of the footprints
\* of its list divided by the number of its entries when the list is not
\* empty, and 0 when it is empty; the division is never by zero.
AvgIsMean ==
  \A c \in Clients :
    LET list == campaigns[c]
        avg == avgCarbon(list)
    IN /\ avg.den # 0
       /\ list = << >> => avg.num = 0
       /\ list # << >> => avg.num * Len(list) = sumFrom(list, 1) * avg.den

\* a list of two whose footprints sum to an odd number: the average is not
\* a whole number
WitnessAvgIsMean ==
  \E c \in Clients :
    /\ Len(campaigns[c]) = 2
    /\ avgCarbon(campaigns[c]).num % 2 = 1
    /\ avgCarbon(campaigns[c]).den = 2

\* the ids of the entries of a list
idsOf(list) == { list[k].id : k \in DOMAIN list }

\* the record of id is stored and nothing leads to it: id is not in the key
\* index, in no key array or list a handler holds, in no session's list, and
\* no handler is working on it
orphaned(id) ==
  /\ hasRecordAt(store, id)
  /\ id \notin Elems(indexOf(store))
  /\ \A c \in Clients :
       /\ id \notin idsOf(campaigns[c])
       /\ \A h \in Slots :
            /\ task[c][h].id # id
            /\ id \notin Elems(task[c][h].keys)
            /\ id \notin idsOf(task[c][h].list)

\* C20: when submitCampaign has written the record and then fails to read
\* or to write the key index, the session's status modal shows the error and
\* the record is left stored with its id outside the index; from then on no
\* step of any session brings the id into the index or into a list.
OrphanStaysHidden ==
  [][ /\ \A c \in Clients, h \in Slots :
           ( /\ task[c][h].pc \in { "submit_get_keys", "submit_set_keys" }
             /\ task'[c][h].pc = "idle" )
           => /\ transactionStatus'[c] = "error"
              /\ \A id \in StoredIds : id = task[c][h].id => orphaned(id)'
      /\ \A id \in StoredIds : orphaned(id) => orphaned(id)' ]_vars

\* C21: the write of calculateCarbon changes the bytes of no key but
\* campaign_<id> of its target (the key index and every other record stay as
\* they were), and the record it stores has the fields of the stored one
\* with the same name, data, timestamp, owner and details.
ComputeFrame ==
  [][ \A c \in Clients, h \in Slots :
        ( leaves(c, h, "calc_set") /\ task'[c][h].pc # "idle" )
        => \A id \in StoredIds :
             id = task[c][h].id
             => /\ \A k \in Keys \ { campaignKey(id) } : store'[k] = store[k]
                /\ hasRecordAt(store', id)
                /\ LET a == recordAt(store, id)
                       b == recordAt(store', id)
                   IN /\ DOMAIN b = DOMAIN a
                      /\ b.status = "completed"
                      /\ \A f \in DOMAIN a \ { "carbonFootprint", "status" } :
                           b[f] = a[f] ]_vars

\* calculateCarbon has completed one record with a footprint that is not 0,
\* while another stored record, also in the index, is still processing
WitnessComputeFrame ==
  \E a, b \in Ids, c \in Clients :
    /\ a # b
    /\ hasRecordAt(store, a) /\ hasRecordAt(store, b)
    /\ recordAt(store, a).status = "completed"
    /\ recordAt(store, a).carbonFootprint # 0
    /\ recordAt(store, a).timestamp > 0
    /\ recordAt(store, b).status = "processing"
    /\ Elems(indexOf(store)) = { a, b }
    /\ transactionStatus[c] = "success"

\* C22 (under SpecStale): when the read of the key index returns bytes that
\* are empty or do not parse, loadCampaigns ends at once, having read no
\* record: the session's list is replaced by the empty list, the refreshing
\* flag is cleared and no error is shown.
BadIndexIsEmpty ==
  [][ \A c \in Clients, h \in Slots :
        ( /\ leaves(c, h, "load_keys")
          /\ ~parses(store[KeysKey])
          /\ KeysKey \notin transport.down )
        => /\ task'[c][h].pc = "idle"
           /\ campaigns'[c] = << >>
           /\ ~isRefreshing'[c]
           /\ transactionStatus'[c] = "hidden" ]_vars

\* a session whose stale list a load has emptied over an index that does
\* not parse, next to a session that still shows the stale list
WitnessBadIndexIsEmpty ==
  \E c, d \in Clients :
    /\ store[KeysKey] = GarbageBytes
    /\ KeysKey \notin transport.down
    /\ \A h \in Slots : task[c][h].pc = "idle"
    /\ campaigns[c] = << >>
    /\ campaigns[d] = StaleList

\* C23: whenever the filtered list of a session is not
\* empty, the page it shows has rows.
PageShownNonEmpty ==
  \A c \in Clients :
    filteredCampaigns(campaigns[c], searchTerm[c]) # << >>
    => currentItems(campaigns[c], searchTerm[c], currentPage[c]) # << >>

\* C24: the bars of the chart are the first completed
\* entries of the list, five at most, and the width of each is its footprint
\* over the largest footprint among the bars shown.
ChartNormalised ==
  \A c \in Clients :
    LET chart == renderCarbonChart(campaigns[c])
        bars == chart.bars
    IN chart.kind = "chart"
       => /\ Len(bars) <= ChartBars
          /\ \A i \in DOMAIN bars :
               /\ bars[i].campaign.status = "completed"
               /\ bars[i].num = bars[i].campaign.carbonFootprint
               /\ \A j \in DOMAIN bars : bars[j].num <= bars[i].den
               /\ \E j \in DOMAIN bars : bars[j].num = bars[i].den

\* C25: the chart of a session's list is an empty state or divides by a
\* maximum footprint that is positive.
ChartDivisorPositive ==
  \A c \in Clients :
    LET chart == renderCarbonChart(campaigns[c])
    IN chart.kind = "chart" => chart.maxCarbon > 0
====
